---- MODULE Spec2Model ----
(***************************************************************************)
(* Model of pytest_check/check_methods.py: the process-wide failure log    *)
(* and strict-mode flag, the check_func wrapper, the shared Soft-Check     *)
(* Scope (CheckContextManager, instance `check`), the Exception-           *)
(* Expectation Scope (CheckRaisesContext) and log_failure with its         *)
(* pseudo-traceback walk over the call stack.                              *)
(*                                                                         *)
(* One test thread runs operations one after another.  `open` is the stack *)
(* of `with` blocks the thread is inside; `exc` is the exception currently *)
(* propagating (NoExc while execution is normal).  `last` records the most *)
(* recent handler call (its inputs, its result and the program state       *)
(* before it).  `ntrig` and `nunmet` are history variables: the failures   *)
(* triggered in non-strict mode since the last clear (failing predicate    *)
(* calls, assertion failures leaving a `with check` block, non-matching    *)
(* exceptions leaving a `with raises` block), and the `with raises` blocks *)
(* that ended without any exception in non-strict mode.                    *)
(*                                                                         *)
(* Further specifications look at one aspect each, with a variable of      *)
(* their own that Spec leaves alone: SpecWalk (the stack walk of           *)
(* log_failure over every kind of call stack and working directory:        *)
(* `curdir`, `callstack`), SpecHeld (the list get_failures hands out:     *)
(* `held`), SpecExit (the strict-mode flag at the enter and at the exit of *)
(* a with-block: `entered`) and SpecThreads (two test threads sharing the  *)
(* log and the `check` instance: `pc`, `race`).                            *)
(***************************************************************************)
EXTENDS Integers, Sequences, FiniteSets, TLC

VARIABLES _stop_on_fail, _failures, check_msg, open, exc, last, ntrig, nunmet,
          curdir, callstack, held, entered, pc, race

\* What only the further specifications change.
aux == <<curdir, callstack, held, entered, pc, race>>

vars == <<_stop_on_fail, _failures, check_msg, open, exc, last, ntrig, nunmet, aux>>

(* ------------------------------ bounds --------------------------------- *)

\* log entries plus open with-blocks (every open block can still log once)
MaxSize == 3
\* nesting depth of with-blocks
MaxOpen == 2
\* failures detected between two clears in the specifications SpecWalk,
\* SpecHeld and SpecThreads
MaxLog == 2

(* --------------------------- Python values ----------------------------- *)

\* A Python value is None, a str, or an exception instance (type, str(e)).
None == [t |-> "none", type |-> "", s |-> ""]
Str(s) == [t |-> "str", type |-> "", s |-> s]
ExcVal(T, s) == [t |-> "exc", type |-> T, s |-> s]
NoExc == None

\* bool(v): None and "" are falsy; exception instances are always truthy.
Truthy(v) == \/ v.t = "exc"
             \/ v.t = "str" /\ v.s # ""

\* "{}".format(v): str(None) = "None", str(e) = str of its single argument.
PyFormat(v) == IF v.t = "none" THEN "None" ELSE v.s

\* Exception classes and their direct base class.
Types == {"AssertionError", "SubAssertionError", "ValueError", "UnicodeError"}
Base(T) == CASE T = "SubAssertionError" -> "AssertionError"
             [] T = "UnicodeError" -> "ValueError"
             [] OTHER -> "Exception"

\* issubclass(T, U) for a single class U
IsSubclass1(T, U) == T = U \/ Base(T) = U

\* issubclass(T, classes) for a tuple of classes; False for the empty tuple
issubclass(T, classes) == \E U \in classes : IsSubclass1(T, U)

\* message arguments callers pass
MsgTexts == {"", "custom"}
\* exceptions a block or a wrapped function can raise
Excs == {ExcVal(T, "") : T \in Types}
\* expected_excs tuples given to raises(...)
ExpectedSets == {{"ValueError"}, {"AssertionError", "UnicodeError"}}

(* ----------------------------- call stack ------------------------------ *)

\* A frame as inspect.stack() reports it: (filename, line, funcname, context).
Frame(file, line, func, context) == [file |-> file, line |-> line, func |-> func, context |-> context]

\* "test_" in func
HasTestMarker(func) == func \in {"test_a", "test_b", "pytest_fixture_setup", "pytest_pyfunc_call"}
\* A path is its sequence of components.  "site-packages" in file
InSitePackages(file) == \E i \in 1..Len(file) : file[i] = "site-packages"

\* The project directory, where a test run is normally started.
ProjDir == <<"home", "proj">>

\* The working directory of the process (os.curdir, the start of relpath).
cwd == curdir

RECURSIVE CommonPrefix(_, _)
CommonPrefix(p, q) == IF p = << >> \/ q = << >> \/ Head(p) # Head(q) THEN 0
                      ELSE 1 + CommonPrefix(Tail(p), Tail(q))

\* os.path.relpath(path): ".." for every component of cwd below the common
\* prefix, then the rest of path.
relpath(path) == LET k == CommonPrefix(cwd, path)
                 IN [i \in 1..(Len(cwd) - k) |-> ".."] \o SubSeq(path, k + 1, Len(path))

HelperFrame == Frame(<<"home", "proj", "tests", "helpers.py">>, 7, "helper", "check.equal(a, b)")

TestFrame == Frame(<<"home", "proj", "tests", "test_mod.py">>, 12, "test_a", "helper()")
RunnerFrame == Frame(<<"home", "venv", "site-packages", "_pytest", "python.py">>, 183,
                     "pytest_pyfunc_call", "testfunction()")

\* Stacks of the caller of a check during a test: the check is made in the
\* test function itself, or in a helper the test function calls.  On these
\* the walk of log_failure ends at the test function's frame; a stack with
\* neither a "test_" function nor a site-packages file (a check made outside
\* a test run) is not among them.
TestStacks == { <<TestFrame, RunnerFrame>>, <<HelperFrame, TestFrame, RunnerFrame>> }

\* inspect.stack() inside get_full_context: the library's own three frames
\* (get_full_context, log_failure, the detecting wrapper or __exit__), then
\* the caller's frames.
LibFile == <<"home", "venv", "site-packages", "pytest_check", "check_methods.py">>
LibFrames(site) == << Frame(LibFile, 253, "get_full_context", "inspect.stack()"),
                      Frame(LibFile, 276, "log_failure", "get_full_context(level)"),
                      Frame(LibFile, 89, site, "log_failure(...)") >>

\* Python indexes the list from 0: inspect.stack()[level] is element level + 1.
inspect_stack(site, caller) == LibFrames(site) \o caller

(* ---------------------------- log_failure ------------------------------ *)

IndexError == ExcVal("IndexError", "list index out of range")

\* get_full_context(level): the frame at inspect.stack()[level], its file
\* name made relative; IndexError when the stack has no such level.
get_full_context(stack, level) ==
  IF level + 1 > Len(stack)
  THEN [raised |-> IndexError, file |-> << >>, line |-> 0, func |-> "", context |-> ""]
  ELSE LET f == stack[level + 1]
       IN [raised |-> NoExc, file |-> relpath(f.file), line |-> f.line,
           func |-> f.func, context |-> f.context]

\* "{}:{} in {}() -> {}".format(file, line, func, context)
TraceLine(file, line, func, context) == <<file, line, func, context>>

\* The loop of log_failure: while "test_" not in func.
RECURSIVE walk(_, _, _, _)
walk(stack, level, pseudo_trace, func) ==
  IF HasTestMarker(func) THEN [raised |-> NoExc, trace |-> pseudo_trace]
  ELSE LET c == get_full_context(stack, level)
       IN IF c.raised # NoExc THEN [raised |-> c.raised, trace |-> pseudo_trace]
          ELSE IF InSitePackages(c.file) THEN [raised |-> NoExc, trace |-> pseudo_trace]
          ELSE walk(stack, level + 1,
                    Append(pseudo_trace, TraceLine(c.file, c.line, c.func, c.context)), c.func)

reversed(s) == [i \in 1..Len(s) |-> s[Len(s) + 1 - i]]

\* Mutant of Entry: the message is left out of the record.
Entry_no_msg(msg, pseudo_trace) == [msg |-> "", trace |-> reversed(pseudo_trace)]

\* "FAILURE: {}\n{}".format(msg if msg else "", pseudo_trace_str)
Entry(msg, pseudo_trace) == [msg |-> IF Truthy(msg) THEN PyFormat(msg) ELSE "",
                             trace |-> reversed(pseudo_trace)]

\* level = 3
StartLevel == 3

\* Mutant of log_failure: the record is inserted at the front of the list.
log_failure_front(msg, failures, site, caller) ==
  LET w == walk(inspect_stack(site, caller), 3, << >>, "")
  IN IF w.raised # NoExc THEN [raised |-> w.raised, failures |-> failures]
     ELSE [raised |-> NoExc,
           failures |-> <<[msg |-> IF Truthy(msg) THEN PyFormat(msg) ELSE "",
                           trace |-> reversed(w.trace)]>> \o failures]

\* Mutant of log_failure: the record replaces the list instead of being
\* appended to it.
log_failure_overwrites(msg, failures, site, caller) ==
  LET w == walk(inspect_stack(site, caller), 3, << >>, "")
  IN IF w.raised # NoExc THEN [raised |-> w.raised, failures |-> failures]
     ELSE [raised |-> NoExc,
           failures |-> <<[msg |-> IF Truthy(msg) THEN PyFormat(msg) ELSE "",
                           trace |-> reversed(w.trace)]>>]

\* log_failure(msg) called from `site` with the caller's stack: the new
\* _failures, or the exception the stack walk raised.
log_failure(msg, failures, site, caller) ==
  LET w == walk(inspect_stack(site, caller), StartLevel, << >>, "")
  IN IF w.raised # NoExc THEN [raised |-> w.raised, failures |-> failures]
     ELSE [raised |-> NoExc, failures |-> Append(failures, Entry(msg, w.trace))]

(* ------------------------------ handlers ------------------------------- *)

\* exc_type is not None and issubclass(exc_type, classes), for exc_val e
Caught(e, classes) == e # NoExc /\ issubclass(e.type, classes)

\* Mutant of wrapper: the _stop_on_fail test is missing.
wrapper_ignores_stop(e, stop, failures, caller) ==
  IF e = NoExc THEN [ret |-> "True", raised |-> NoExc, failures |-> failures]
  ELSE IF e.type \in {"AssertionError", "SubAssertionError"}
  THEN [ret |-> "False", raised |-> NoExc,
        failures |-> Append(failures, [msg |-> e.s, trace |-> << >>])]
  ELSE [ret |-> "none", raised |-> e, failures |-> failures]

\* Mutant of wrapper: `return True` is missing.
wrapper_no_return(e, stop, failures, caller) ==
  IF e = NoExc THEN [ret |-> "none", raised |-> NoExc, failures |-> failures]
  ELSE IF e.type \in {"AssertionError", "SubAssertionError"} /\ ~stop
  THEN [ret |-> "False", raised |-> NoExc,
        failures |-> Append(failures, [msg |-> e.s, trace |-> << >>])]
  ELSE [ret |-> "none", raised |-> e, failures |-> failures]

\* Mutant of wrapper: `except Exception`, so every exception is handled.
wrapper_catches_all(e, stop, failures, caller) ==
  IF e = NoExc THEN [ret |-> "True", raised |-> NoExc, failures |-> failures]
  ELSE IF stop THEN [ret |-> "none", raised |-> e, failures |-> failures]
  ELSE [ret |-> "False", raised |-> NoExc,
        failures |-> Append(failures, [msg |-> e.s, trace |-> << >>])]

\* wrapper(*args) of check_func(func), where calling func ends with e
\* (NoExc when it returns): the return value, the exception the wrapper
\* raises and the new _failures.
wrapper(e, stop, failures, caller) ==
  IF e = NoExc THEN [ret |-> "True", raised |-> NoExc, failures |-> failures]
  ELSE IF Caught(e, {"AssertionError"})
  THEN IF stop THEN [ret |-> "none", raised |-> e, failures |-> failures]
       ELSE LET l == log_failure(e, failures, "wrapper", caller)
            IN IF l.raised # NoExc
               THEN [ret |-> "none", raised |-> l.raised, failures |-> l.failures]
               ELSE [ret |-> "False", raised |-> NoExc, failures |-> l.failures]
  ELSE [ret |-> "none", raised |-> e, failures |-> failures]

\* assert <condition>, msg inside a predicate such as equal(a, b, msg)
py_assert(holds, msg) == IF holds THEN NoExc ELSE ExcVal("AssertionError", msg)

\* CheckContextManager.__call__(msg): the new self.msg
CheckContextManager__call__(msg) == msg

\* Mutant of CheckContextManager.__exit__: exc_type is AssertionError, so a
\* subclass of AssertionError is not handled.
CheckContextManager__exit__exact(msg, e, stop, failures, caller) ==
  IF e # NoExc /\ e.type = "AssertionError" /\ ~stop
  THEN [suppress |-> TRUE, msg |-> None, raised |-> NoExc,
        failures |-> Append(failures, [msg |-> IF msg # None THEN msg.s ELSE e.s, trace |-> << >>])]
  ELSE [suppress |-> FALSE, msg |-> None, failures |-> failures, raised |-> NoExc]

\* Mutant of CheckContextManager.__exit__: the strict-mode flag is the one
\* read when the block was entered (kept in `entered`), not _stop_on_fail now.
CheckContextManager__exit__flag_at_enter(msg, e, stop, failures, caller) ==
  IF e # NoExc /\ e.type \in {"AssertionError", "SubAssertionError"}
                /\ ~entered.flags[Len(entered.flags)]
  THEN [suppress |-> TRUE, msg |-> None, raised |-> NoExc,
        failures |-> Append(failures, [msg |-> IF msg # None THEN msg.s ELSE e.s, trace |-> << >>])]
  ELSE [suppress |-> FALSE, msg |-> None, failures |-> failures, raised |-> NoExc]

\* Mutant of CheckContextManager.__exit__: log_failure(exc_val) whatever
\* self.msg is.
CheckContextManager__exit__ignores_msg(msg, e, stop, failures, caller) ==
  IF e # NoExc /\ e.type \in {"AssertionError", "SubAssertionError"} /\ ~stop
  THEN [suppress |-> TRUE, msg |-> None, raised |-> NoExc,
        failures |-> Append(failures, [msg |-> e.s, trace |-> << >>])]
  ELSE [suppress |-> FALSE, msg |-> None, failures |-> failures, raised |-> NoExc]

\* CheckContextManager.__exit__(exc_type, exc_val, exc_tb) with self.msg = msg:
\* whether it returns True (suppress), the new self.msg, the new _failures,
\* and the exception raised inside __exit__ itself.
CheckContextManager__exit__(msg, e, stop, failures, caller) ==
  IF Caught(e, {"AssertionError"})
  THEN IF stop THEN [suppress |-> FALSE, msg |-> None, failures |-> failures, raised |-> NoExc]
       ELSE LET l == log_failure(IF msg # None THEN msg ELSE e, failures, "__exit__", caller)
            IN IF l.raised # NoExc
               THEN [suppress |-> FALSE, msg |-> msg, failures |-> l.failures, raised |-> l.raised]
               ELSE [suppress |-> TRUE, msg |-> None, failures |-> l.failures, raised |-> NoExc]
  ELSE [suppress |-> FALSE, msg |-> None, failures |-> failures, raised |-> NoExc]

\* Mutant of CheckRaisesContext.__exit__: the _stop_on_fail test is inverted.
CheckRaisesContext__exit__inverted(expected, msg, e, stop, failures, caller) ==
  IF e # NoExc /\ (\E U \in expected : e.type = U \/ Base(e.type) = U)
  THEN [suppress |-> TRUE, msg |-> None, failures |-> failures, raised |-> NoExc]
  ELSE IF ~stop THEN [suppress |-> FALSE, msg |-> None, failures |-> failures, raised |-> NoExc]
  ELSE [suppress |-> TRUE, msg |-> None, raised |-> NoExc,
        failures |-> Append(failures, [msg |-> IF msg # None THEN msg.s ELSE "", trace |-> << >>])]

\* Mutant of CheckRaisesContext.__exit__: an exit without any exception
\* returns at once.
CheckRaisesContext__exit__skips_none(expected, msg, e, stop, failures, caller) ==
  IF e = NoExc \/ stop
  THEN [suppress |-> FALSE, msg |-> None, failures |-> failures, raised |-> NoExc]
  ELSE IF \E U \in expected : e.type = U \/ Base(e.type) = U
  THEN [suppress |-> TRUE, msg |-> None, failures |-> failures, raised |-> NoExc]
  ELSE [suppress |-> TRUE, msg |-> None, raised |-> NoExc,
        failures |-> Append(failures, [msg |-> IF msg # None THEN msg.s ELSE e.s, trace |-> << >>])]

\* Mutant of CheckRaisesContext.__exit__: only an AssertionError is recorded,
\* any other exception that was not expected is left to propagate.
CheckRaisesContext__exit__reraises(expected, msg, e, stop, failures, caller) ==
  IF e # NoExc /\ (\E U \in expected : e.type = U \/ Base(e.type) = U)
  THEN [suppress |-> TRUE, msg |-> None, failures |-> failures, raised |-> NoExc]
  ELSE IF stop \/ (e # NoExc /\ e.type \notin {"AssertionError", "SubAssertionError"})
  THEN [suppress |-> FALSE, msg |-> None, failures |-> failures, raised |-> NoExc]
  ELSE [suppress |-> TRUE, msg |-> None, raised |-> NoExc,
        failures |-> Append(failures, [msg |-> IF msg # None THEN msg.s ELSE "", trace |-> << >>])]

\* CheckRaisesContext.__exit__ with self.expected_excs = expected and
\* self.msg = msg.
CheckRaisesContext__exit__(expected, msg, e, stop, failures, caller) ==
  IF Caught(e, expected)
  THEN [suppress |-> TRUE, msg |-> None, failures |-> failures, raised |-> NoExc]
  ELSE IF stop THEN [suppress |-> FALSE, msg |-> None, failures |-> failures, raised |-> NoExc]
  ELSE LET l == log_failure(IF msg # None THEN msg ELSE e, failures, "__exit__", caller)
       IN IF l.raised # NoExc
          THEN [suppress |-> FALSE, msg |-> msg, failures |-> l.failures, raised |-> l.raised]
          ELSE [suppress |-> TRUE, msg |-> None, failures |-> l.failures, raised |-> NoExc]

\* CheckRaisesContext.__call__(callable_, *args, msg=msg), where calling
\* callable_ ends with e: self.msg is set, the callable runs outside any
\* with-block, and self is returned when it returns.
CheckRaisesContext__call__(expected, msg, e, stop, failures) ==
  IF e = NoExc THEN [ret |-> "self", msg |-> msg, failures |-> failures, raised |-> NoExc]
  ELSE [ret |-> "none", msg |-> msg, failures |-> failures, raised |-> e]

(* ------------------------------- state --------------------------------- *)

\* The program state a handler starts from.
Pre == [failures |-> _failures, stop |-> _stop_on_fail, msg |-> check_msg]

\* The record of one handler call.
Call(op, arg, cfgd, expected, inexc, outexc, ret) ==
  [op |-> op, arg |-> arg, cfgd |-> cfgd, expected |-> expected,
   inexc |-> inexc, outexc |-> outexc, ret |-> ret, pre |-> Pre]

\* An open with-block: the shared `check` (msg: the message this activation
\* was configured with, cfgd: whether it was entered as check(msg=...)), or
\* a CheckRaisesContext object with its expected_excs and msg.
CheckBlock(m, cfgd) == [kind |-> "check", expected |-> {}, msg |-> m, cfgd |-> cfgd]
RaisesBlock(expected, m) == [kind |-> "raises", expected |-> expected, msg |-> m, cfgd |-> FALSE]

Top == open[Len(open)]
Pop == SubSeq(open, 1, Len(open) - 1)

\* Counting an event that happens in non-strict mode.
Triggered(n, yes) == IF yes /\ ~_stop_on_fail THEN n + 1 ELSE n

\* A block ends with the exception already propagating, or else normally or
\* with an exception of its own.
BlockEnds == IF exc # NoExc THEN {exc} ELSE Excs \cup {NoExc}

\* There is room for one more log entry or one more open block.
Room == Len(_failures) + Len(open) < MaxSize

\* The module after import, before any operation.
Start ==
  /\ _stop_on_fail = FALSE
  /\ _failures = << >>
  /\ check_msg = None
  /\ open = << >>
  /\ exc = NoExc
  /\ last = [op |-> "init", arg |-> None, cfgd |-> FALSE, expected |-> {},
             inexc |-> NoExc, outexc |-> NoExc, ret |-> "none",
             pre |-> [failures |-> << >>, stop |-> FALSE, msg |-> None]]
  /\ ntrig = 0
  /\ nunmet = 0

\* No caller holds a list returned by get_failures.
NoRef == [got |-> FALSE, live |-> FALSE, val |-> << >>, at |-> << >>]

\* No with-block has been entered.
NotEntered == [flags |-> << >>, at |-> FALSE]

\* The test threads, each outside any use of `check`.
Threads == {"t1", "t2"}
Idle == [at |-> "idle", cfg |-> None, ov |-> FALSE, hit |-> FALSE, got |-> "", want |-> ""]

\* No cross-thread effect has happened.
NoRace == [under |-> FALSE, cleared |-> FALSE, discarded |-> FALSE, observed |-> FALSE]

\* The variables of the further specifications, at rest.
AuxStart ==
  /\ callstack = << >>
  /\ held = NoRef
  /\ entered = NotEntered
  /\ pc = [t \in Threads |-> Idle]
  /\ race = NoRace

Init == Start /\ curdir = ProjDir /\ AuxStart

(* ------------------------------ actions --------------------------------- *)

\* Mutant of clear_failures: the strict-mode flag is reset with the log.
clear_failures_resets_flag ==
  /\ exc = NoExc
  /\ _failures' = << >>
  /\ _stop_on_fail' = FALSE
  /\ ntrig' = 0
  /\ nunmet' = 0
  /\ last' = [op |-> "clear_failures", arg |-> None, cfgd |-> FALSE, expected |-> {},
              inexc |-> NoExc, outexc |-> NoExc, ret |-> "none",
              pre |-> [failures |-> _failures, stop |-> _stop_on_fail, msg |-> check_msg]]
  /\ UNCHANGED <<check_msg, open, exc>>

clear_failures ==
  /\ exc = NoExc
  /\ _failures' = << >>
  /\ ntrig' = 0
  /\ nunmet' = 0
  /\ last' = Call("clear_failures", None, FALSE, {}, NoExc, NoExc, "none")
  /\ UNCHANGED <<_stop_on_fail, check_msg, open, exc>>

get_failures ==
  /\ exc = NoExc
  /\ last' = Call("get_failures", None, FALSE, {}, NoExc, NoExc, "_failures")
  /\ UNCHANGED <<_stop_on_fail, _failures, check_msg, open, exc, ntrig, nunmet>>

set_stop_on_fail(stop_on_fail) ==
  /\ exc = NoExc
  /\ _stop_on_fail' = stop_on_fail
  /\ last' = Call("set_stop_on_fail", None, FALSE, {}, NoExc, NoExc, "none")
  /\ UNCHANGED <<_failures, check_msg, open, exc, ntrig, nunmet>>

\* A call of a wrapped function in which func ends with e, made while there
\* is room for the record it may append.
Wrapped(op, m, e, caller) ==
  LET r == wrapper(e, _stop_on_fail, _failures, caller)
  IN /\ exc = NoExc
     /\ Room
     /\ _failures' = r.failures
     /\ exc' = r.raised
     /\ last' = Call(op, m, FALSE, {}, e, r.raised, r.ret)
     /\ ntrig' = Triggered(ntrig, Caught(e, {"AssertionError"}))
     /\ UNCHANGED <<_stop_on_fail, check_msg, open, nunmet>>

\* equal(a, b, msg) and the other predicates: assert <condition>, msg
predicate(holds, msg, caller) == Wrapped("predicate", Str(msg), py_assert(holds, msg), caller)

\* a user function decorated with check_func that raises e
check_func(e, caller) == Wrapped("check_func", None, e, caller)

\* with check:
with_check ==
  /\ exc = NoExc
  /\ Len(open) < MaxOpen /\ Room
  /\ open' = Append(open, CheckBlock(None, FALSE))
  /\ last' = Call("with_check", None, FALSE, {}, NoExc, NoExc, "self")
  /\ UNCHANGED <<_stop_on_fail, _failures, check_msg, exc, ntrig, nunmet>>

\* with check(msg=m): __call__ then __enter__
with_check_msg(m) ==
  /\ exc = NoExc
  /\ Len(open) < MaxOpen /\ Room
  /\ check_msg' = CheckContextManager__call__(m)
  /\ open' = Append(open, CheckBlock(m, TRUE))
  /\ last' = Call("with_check_msg", m, TRUE, {}, NoExc, NoExc, "self")
  /\ UNCHANGED <<_stop_on_fail, _failures, exc, ntrig, nunmet>>

\* the block of the innermost `with check` ends with e: __exit__ runs
check_exit(e, caller) ==
  LET r == CheckContextManager__exit__(check_msg, e, _stop_on_fail, _failures, caller)
      out == IF r.raised # NoExc THEN r.raised ELSE IF r.suppress THEN NoExc ELSE e
  IN /\ open # << >> /\ Top.kind = "check"
     /\ e \in BlockEnds
     /\ _failures' = r.failures
     /\ check_msg' = r.msg
     /\ open' = Pop
     /\ exc' = out
     /\ last' = Call("check_exit", Top.msg, Top.cfgd, {}, e, out, IF r.suppress THEN "True" ELSE "none")
     /\ ntrig' = Triggered(ntrig, Caught(e, {"AssertionError"}))
     /\ UNCHANGED <<_stop_on_fail, nunmet>>

\* with raises(*expected, msg=m): __init__ then __enter__
with_raises(expected, m) ==
  /\ exc = NoExc
  /\ Len(open) < MaxOpen /\ Room
  /\ open' = Append(open, RaisesBlock(expected, m))
  /\ last' = Call("with_raises", m, FALSE, expected, NoExc, NoExc, "self")
  /\ UNCHANGED <<_stop_on_fail, _failures, check_msg, exc, ntrig, nunmet>>

\* the block of the innermost `with raises(...)` ends with e: __exit__ runs
raises_exit(e, caller) ==
  LET r == CheckRaisesContext__exit__(Top.expected, Top.msg, e, _stop_on_fail, _failures, caller)
      out == IF r.raised # NoExc THEN r.raised ELSE IF r.suppress THEN NoExc ELSE e
  IN /\ open # << >> /\ Top.kind = "raises"
     /\ e \in BlockEnds
     /\ _failures' = r.failures
     /\ open' = Pop
     /\ exc' = out
     /\ last' = Call("raises_exit", Top.msg, FALSE, Top.expected, e, out,
                     IF r.suppress THEN "True" ELSE "none")
     /\ ntrig' = Triggered(ntrig, e # NoExc /\ ~Caught(e, Top.expected))
     /\ nunmet' = Triggered(nunmet, e = NoExc)
     /\ UNCHANGED <<_stop_on_fail, check_msg>>

\* raises(*expected)(callable_, msg=m), where callable_ ends with e
raises_call(expected, m, e) ==
  LET r == CheckRaisesContext__call__(expected, m, e, _stop_on_fail, _failures)
  IN /\ exc = NoExc
     /\ _failures' = r.failures
     /\ exc' = r.raised
     /\ last' = Call("raises_call", m, FALSE, expected, e, r.raised, r.ret)
     /\ UNCHANGED <<_stop_on_fail, check_msg, open, ntrig, nunmet>>

\* an exception leaves the outermost block: the test function ends with it
test_aborts ==
  /\ exc # NoExc
  /\ open = << >>
  /\ exc' = NoExc
  /\ last' = Call("test_aborts", None, FALSE, {}, exc, exc, "none")
  /\ UNCHANGED <<_stop_on_fail, _failures, check_msg, open, ntrig, nunmet>>

\* how the callable given to raises(...)(callable_, msg="custom") ends
CallableEnds == {NoExc, ExcVal("ValueError", ""), ExcVal("AssertionError", "")}

Msgs == {None} \cup {Str(t) : t \in MsgTexts \ {""}}

\* The operations of one test thread, started in the project directory.
Next ==
  \/ clear_failures /\ UNCHANGED aux
  \/ get_failures /\ UNCHANGED aux
  \/ \E b \in BOOLEAN : set_stop_on_fail(b) /\ UNCHANGED aux
  \/ \E holds \in BOOLEAN, t \in MsgTexts, c \in TestStacks :
       predicate(holds, t, c) /\ UNCHANGED aux
  \/ \E e \in Excs, c \in TestStacks : check_func(e, c) /\ UNCHANGED aux
  \/ with_check /\ UNCHANGED aux
  \/ \E t \in MsgTexts \ {""} : with_check_msg(Str(t)) /\ UNCHANGED aux
  \/ \E e \in Excs \cup {NoExc}, c \in TestStacks : check_exit(e, c) /\ UNCHANGED aux
  \/ \E x \in ExpectedSets, m \in Msgs : with_raises(x, m) /\ UNCHANGED aux
  \/ \E e \in Excs \cup {NoExc}, c \in TestStacks : raises_exit(e, c) /\ UNCHANGED aux
  \/ \E x \in ExpectedSets, e \in CallableEnds :
       raises_call(x, Str("custom"), e) /\ UNCHANGED aux
  \/ test_aborts /\ UNCHANGED aux

Spec == Init /\ [][Next]_vars

(* ------------- SpecWalk: the stack walk on any call stack --------------- *)

\* A working directory inside an installed package (its tests are run from
\* there).
SiteDir == <<"home", "venv", "site-packages", "pkg">>
WorkDirs == {ProjDir, SiteDir}

\* A script run without pytest that makes a check at module level.
ScriptFrame == Frame(<<"home", "proj", "script.py">>, 3, "<module>", "check.equal(1, 2)")
\* A function of an installed library that makes a check for the test.
LibHelperFrame == Frame(<<"home", "venv", "site-packages", "lib", "util.py">>, 40,
                        "verify", "check.equal(a, b)")
\* A fixture function of the project, and pytest's frames that call it.
FixtureFrame == Frame(<<"home", "proj", "tests", "conftest.py">>, 9, "db", "check.is_true(ok)")
CallFixtureFrame == Frame(<<"home", "venv", "site-packages", "_pytest", "fixtures.py">>, 898,
                          "call_fixture_func", "fixturefunc(**kwargs)")
FixtureSetupFrame == Frame(<<"home", "venv", "site-packages", "_pytest", "fixtures.py">>, 1140,
                           "pytest_fixture_setup", "call_fixture_func(fixturefunc, request, kwargs)")
\* A test function of an installed package.
InstalledTestFrame == Frame(<<"home", "venv", "site-packages", "pkg", "test_pkg.py">>, 5,
                            "test_a", "check.equal(a, b)")

\* Every kind of stack a check can be made from: in a test or its helper,
\* at the top of a script, in an installed library's function, in a fixture,
\* in a test of an installed package.
WalkStacks == TestStacks \cup
              { <<ScriptFrame>>,
                <<LibHelperFrame, TestFrame, RunnerFrame>>,
                <<FixtureFrame, CallFixtureFrame, FixtureSetupFrame>>,
                <<InstalledTestFrame, RunnerFrame>> }

\* How a block or a predicate's assertion ends in SpecWalk.
WalkEnds == {NoExc, ExcVal("AssertionError", "")}

\* The process may have been started in either directory.
InitWalk == Start /\ curdir \in WorkDirs /\ AuxStart

\* One more failure may be detected before the next clear (a detected
\* failure is counted even when log_failure raises instead of appending).
WalkRoom == ntrig + Len(open) < MaxLog

\* The stack the last detecting call was made from is kept in callstack.
NextWalk ==
  \/ clear_failures /\ UNCHANGED aux
  \/ \E b \in BOOLEAN : set_stop_on_fail(b) /\ UNCHANGED aux
  \/ \E holds \in BOOLEAN, c \in WalkStacks :
       /\ WalkRoom
       /\ predicate(holds, "", c)
       /\ callstack' = c
       /\ UNCHANGED <<curdir, held, entered, pc, race>>
  \/ WalkRoom /\ with_check /\ UNCHANGED aux
  \/ \E e \in WalkEnds, c \in WalkStacks :
       /\ check_exit(e, c)
       /\ callstack' = c
       /\ UNCHANGED <<curdir, held, entered, pc, race>>
  \/ test_aborts /\ UNCHANGED aux

SpecWalk == InitWalk /\ [][NextWalk]_vars

(* ------------ SpecHeld: the list that get_failures hands out ------------ *)

\* held is what a caller of get_failures holds: whether it has called (got),
\* whether the object it holds is still the one the global _failures names
\* (live), the object's contents now (val) and when the call returned (at).

\* `return _failures`: the caller gets the list object itself.
Returned(failures) == [got |-> TRUE, live |-> TRUE, val |-> failures, at |-> failures]

\* `_failures.append(entry)` changes the list object in place: a caller that
\* holds this object sees the new contents.
Appended(h, failures) == IF h.live THEN [h EXCEPT !.val = failures] ELSE h

\* `_failures = []` binds the global name to a new list: an object handed
\* out before keeps its entries and is the log no longer.
Rebound(h) == [h EXCEPT !.live = FALSE]

NextHeld ==
  \/ /\ clear_failures
     /\ held' = Rebound(held)
     /\ UNCHANGED <<curdir, callstack, entered, pc, race>>
  \/ /\ get_failures
     /\ held' = Returned(_failures)
     /\ UNCHANGED <<curdir, callstack, entered, pc, race>>
  \/ \E b \in BOOLEAN : set_stop_on_fail(b) /\ UNCHANGED aux
  \/ \E holds \in BOOLEAN, t \in MsgTexts, c \in TestStacks :
       /\ Len(_failures) < MaxLog
       /\ predicate(holds, t, c)
       /\ held' = Appended(held, _failures')
       /\ UNCHANGED <<curdir, callstack, entered, pc, race>>
  \/ test_aborts /\ UNCHANGED aux

SpecHeld == Init /\ [][NextHeld]_vars

(* ------ SpecExit: the strict-mode flag at enter and at exit of a block ---- *)

\* entered.flags: for every open with-block, the value _stop_on_fail had when
\* the block was entered; entered.at: that value for the block left last.
Enter(en, stop) == [en EXCEPT !.flags = Append(@, stop)]
Leave(en) == [flags |-> SubSeq(en.flags, 1, Len(en.flags) - 1), at |-> en.flags[Len(en.flags)]]

\* How a block ends in SpecExit.
ExitEnds == {NoExc, ExcVal("AssertionError", ""), ExcVal("ValueError", "")}

\* The stack of a block written in the test function itself.
InTest == <<TestFrame, RunnerFrame>>

NextExit ==
  \/ clear_failures /\ UNCHANGED aux
  \/ \E b \in BOOLEAN : set_stop_on_fail(b) /\ UNCHANGED aux
  \/ /\ with_check
     /\ entered' = Enter(entered, _stop_on_fail)
     /\ UNCHANGED <<curdir, callstack, held, pc, race>>
  \/ /\ with_check_msg(Str("custom"))
     /\ entered' = Enter(entered, _stop_on_fail)
     /\ UNCHANGED <<curdir, callstack, held, pc, race>>
  \/ \E e \in ExitEnds :
       /\ check_exit(e, InTest)
       /\ entered' = Leave(entered)
       /\ UNCHANGED <<curdir, callstack, held, pc, race>>
  \/ \E x \in ExpectedSets :
       /\ with_raises(x, None)
       /\ entered' = Enter(entered, _stop_on_fail)
       /\ UNCHANGED <<curdir, callstack, held, pc, race>>
  \/ \E e \in ExitEnds :
       /\ raises_exit(e, InTest)
       /\ entered' = Leave(entered)
       /\ UNCHANGED <<curdir, callstack, held, pc, race>>
  \/ test_aborts /\ UNCHANGED aux

SpecExit == Init /\ [][NextExit]_vars

(* ---- SpecThreads: two test threads share the log and the `check` object -- *)

\* Each thread runs its own test function, in non-strict mode, and uses the
\* shared scope as `with check(msg=...):` with a message of its own or as
\* `with check:`.  A step is a piece of code between two points where the
\* interpreter may switch threads: __call__ (it stores self.msg), __enter__,
\* __exit__ up to the append made by log_failure, and the final store
\* self.msg = None of __exit__.  pc[t] is where thread t is (idle, called,
\* block, logged) and, for its current use of the scope: the message it
\* configured (cfg), whether a use by the other thread was open at any time
\* during it (ov), whether its exit appended a record (hit), the message of
\* that record (got) and the message of this use itself (want: cfg, or the
\* text of its exception when no message was configured).  race collects
\* what has happened across the threads so far.
Other(t) == CHOOSE u \in Threads : u # t
Active(t) == pc[t].at # "idle"

ThreadMsg(t) == IF t = "t1" THEN Str("custom") ELSE Str("other")

TestFrameB == Frame(<<"home", "proj", "tests", "test_mod.py">>, 30, "test_b", "assert total == 3")
ThreadStack(t) == IF t = "t1" THEN <<TestFrame, RunnerFrame>> ELSE <<TestFrameB, RunnerFrame>>

\* How the block of a thread ends.
ThreadEnds == {NoExc, ExcVal("AssertionError", "")}

\* There is room in the log for a record of every open use and one more.
ThreadRoom == Len(_failures) + Cardinality({u \in Threads : Active(u)}) < MaxLog

\* failures holds a record whose trace starts in the test function of t.
HasRecordOf(t, failures) ==
  \E i \in 1..Len(failures) :
    failures[i].trace # << >> /\ failures[i].trace[1][3] = ThreadStack(t)[1].func

\* Thread t starts a use of the scope: it overlaps the use the other thread
\* has open, if any.
Begin(t, at, cfg) ==
  [u \in Threads |->
     IF u = t THEN [Idle EXCEPT !.at = at, !.cfg = cfg, !.ov = Active(Other(t))]
     ELSE IF Active(u) THEN [pc[u] EXCEPT !.ov = TRUE]
     ELSE pc[u]]

\* check(msg=m): __call__
t_call(t) ==
  /\ pc[t].at = "idle" /\ ThreadRoom
  /\ check_msg' = CheckContextManager__call__(ThreadMsg(t))
  /\ pc' = Begin(t, "called", ThreadMsg(t))
  /\ UNCHANGED <<_failures, race>>

\* __enter__, after check(msg=m) or on the bare `check`
t_enter(t) ==
  /\ \/ pc[t].at = "called" /\ pc' = [pc EXCEPT ![t].at = "block"]
     \/ pc[t].at = "idle" /\ ThreadRoom /\ pc' = Begin(t, "block", None)
  /\ UNCHANGED <<_failures, check_msg, race>>

\* the block ends with e: __exit__ up to and including log_failure
t_exit(t, e) ==
  LET r == CheckContextManager__exit__(check_msg, e, _stop_on_fail, _failures, ThreadStack(t))
      hit == Len(r.failures) = Len(_failures) + 1
      got == IF hit THEN r.failures[Len(r.failures)].msg ELSE ""
      want == IF pc[t].cfg # None THEN pc[t].cfg.s ELSE IF e # NoExc THEN e.s ELSE ""
  IN /\ pc[t].at = "block"
     /\ _failures' = r.failures
     /\ pc' = [pc EXCEPT ![t] = [@ EXCEPT !.at = "logged", !.hit = hit, !.got = got, !.want = want]]
     /\ race' = [race EXCEPT
                   !.under = @ \/ (hit /\ got # want /\ got = ThreadMsg(Other(t)).s),
                   !.cleared = @ \/ (hit /\ pc[t].cfg # None /\ got # want /\ got = e.s)]
     /\ UNCHANGED check_msg

\* self.msg = None, the last statement of every branch of __exit__
t_exit_clear(t) ==
  /\ pc[t].at = "logged"
  /\ check_msg' = None
  /\ pc' = [pc EXCEPT ![t] = Idle]
  /\ UNCHANGED <<_failures, race>>

\* clear_failures() called by thread t
t_clear(t) ==
  /\ pc[t].at = "idle"
  /\ _failures' = << >>
  /\ race' = [race EXCEPT !.discarded = @ \/ HasRecordOf(Other(t), _failures)]
  /\ UNCHANGED <<check_msg, pc>>

\* get_failures() called by thread t
t_get(t) ==
  /\ pc[t].at = "idle"
  /\ race' = [race EXCEPT !.observed = @ \/ HasRecordOf(Other(t), _failures)]
  /\ UNCHANGED <<_failures, check_msg, pc>>

\* What SpecThreads leaves alone.
single == <<_stop_on_fail, open, exc, last, ntrig, nunmet, curdir, callstack, held, entered>>

NextThreads ==
  \/ \E t \in Threads : t_call(t) /\ UNCHANGED single
  \/ \E t \in Threads : t_enter(t) /\ UNCHANGED single
  \/ \E t \in Threads, e \in ThreadEnds : t_exit(t, e) /\ UNCHANGED single
  \/ \E t \in Threads : t_exit_clear(t) /\ UNCHANGED single
  \/ \E t \in Threads : t_clear(t) /\ UNCHANGED single
  \/ \E t \in Threads : t_get(t) /\ UNCHANGED single

SpecThreads == Init /\ [][NextThreads]_vars

(* ------------------------------- claims --------------------------------- *)

\* exc_val is an AssertionError or an instance of a subclass
IsAssertion(e) == Caught(e, {"AssertionError"})

\* The last call left the log as it was.
LogUnchanged == _failures = last.pre.failures

\* The last call appended exactly one record to the log.
OneAppended == /\ Len(_failures) = Len(last.pre.failures) + 1
               /\ SubSeq(_failures, 1, Len(last.pre.failures)) = last.pre.failures

\* The message of the newest record.
NewestMsg == _failures[Len(_failures)].msg

\* The last call was a call of a wrapped function.
WrapperCall == last.op \in {"predicate", "check_func"}

\* C1 as stated: the log holds exactly the failures triggered in non-strict
\* mode since the last clear, when the triggers are failing predicate calls,
\* assertion failures leaving a Soft-Check Scope and non-matching exceptions
\* leaving an Exception-Expectation Scope; and clear_failures empties it.
C1_AsStated ==
  /\ Len(_failures) = ntrig
  /\ last.op = "clear_failures" => _failures = << >>

\* C1 amended: the log holds exactly the failures triggered in non-strict
\* mode since the last clear, in trigger order (each one appended behind the
\* records already there), when an Exception-Expectation Scope that exits
\* without any exception counts as a trigger too; clear_failures empties it.
C1_LogHoldsTriggers ==
  /\ Len(_failures) = ntrig + nunmet
  /\ _failures # last.pre.failures /\ last.op # "clear_failures" => OneAppended
  /\ last.op = "clear_failures" => _failures = << >>

C1_Witness ==
  /\ last.op = "get_failures"
  /\ ntrig = 2
  /\ Len(_failures) = 2
  /\ _failures[1] # _failures[2]

\* C2: in strict mode a failing wrapped predicate, or an assertion failure
\* leaving a Soft-Check Scope, propagates that exception to the caller and
\* leaves the log as it was.
C2_StrictPropagates ==
  (last.pre.stop /\ (WrapperCall \/ last.op = "check_exit") /\ IsAssertion(last.inexc))
    => (last.outexc = last.inexc /\ LogUnchanged)

C2_Witness ==
  /\ last.pre.stop /\ last.op = "check_exit" /\ IsAssertion(last.inexc)
  /\ last.pre.failures # << >>
  /\ last.outexc = last.inexc

\* C3 as stated: raises(E...)(callable, msg=...) suppresses an exception of an
\* expected type with no log entry, records and suppresses a non-matching
\* exception in non-strict mode, and returns the scope object whenever
\* nothing propagates.
C3_DirectCallSuppresses ==
  last.op = "raises_call" =>
    /\ Caught(last.inexc, last.expected) => (last.outexc = NoExc /\ LogUnchanged)
    /\ (last.inexc # NoExc /\ ~Caught(last.inexc, last.expected) /\ ~last.pre.stop)
         => (last.outexc = NoExc /\ OneAppended)
    /\ last.outexc = NoExc => last.ret = "self"

\* C4: an Exception-Expectation Scope left by an exception of an expected
\* type (or a subclass) suppresses it and leaves the log as it was, in both
\* modes; left by a non-matching exception it appends one record and
\* suppresses in non-strict mode, and lets the exception propagate with the
\* log as it was in strict mode.
C4_RaisesExit ==
  (last.op = "raises_exit" /\ last.inexc # NoExc) =>
    IF Caught(last.inexc, last.expected) THEN last.outexc = NoExc /\ LogUnchanged
    ELSE IF last.pre.stop THEN last.outexc = last.inexc /\ LogUnchanged
    ELSE last.outexc = NoExc /\ OneAppended

C4_Witness ==
  /\ last.op = "raises_exit" /\ last.inexc # NoExc
  /\ ~Caught(last.inexc, last.expected) /\ ~last.pre.stop
  /\ last.pre.failures # << >>
  /\ Len(_failures) = Len(last.pre.failures) + 1

\* C5 as stated: an Exception-Expectation Scope whose block raises nothing
\* appends no record, in either mode.
C5_AsStated ==
  (last.op = "raises_exit" /\ last.inexc = NoExc) => LogUnchanged

\* C5 amended: an Exception-Expectation Scope whose block raises nothing
\* appends no record in strict mode; in non-strict mode it appends one record
\* for the unmet expectation, whose message is the scope's configured
\* message, or empty when none was configured.  Nothing propagates.
C5_NoExceptionExit ==
  (last.op = "raises_exit" /\ last.inexc = NoExc) =>
    /\ last.outexc = NoExc
    /\ IF last.pre.stop THEN LogUnchanged
       ELSE OneAppended /\ NewestMsg = (IF last.arg = None THEN "" ELSE last.arg.s)

C5_Witness ==
  /\ last.op = "raises_exit" /\ last.inexc = NoExc /\ ~last.pre.stop
  /\ last.arg = Str("custom")
  /\ Len(_failures) = Len(last.pre.failures) + 1

\* C6 as stated: in strict mode every condition that non-strict mode records
\* (a failed assertion in a wrapped predicate or Soft-Check Scope, a
\* non-matching exception or no exception at all in an Exception-Expectation
\* Scope) makes an exception propagate to the caller, the log left as it was.
C6_StrictAlwaysPropagates ==
  (/\ last.pre.stop
   /\ \/ (WrapperCall \/ last.op = "check_exit") /\ IsAssertion(last.inexc)
      \/ last.op = "raises_exit" /\ ~Caught(last.inexc, last.expected))
    => (last.outexc # NoExc /\ LogUnchanged)

\* C7: a wrapped predicate call whose assertion holds returns True and
\* leaves the log, the strict-mode flag and the shared scope's message as
\* they were, in both modes.
C7_PredicateSuccess ==
  (last.op = "predicate" /\ last.inexc = NoExc) =>
    /\ last.ret = "True" /\ last.outexc = NoExc
    /\ LogUnchanged
    /\ _stop_on_fail = last.pre.stop
    /\ check_msg = last.pre.msg

C7_Witness ==
  /\ last.op = "predicate" /\ last.inexc = NoExc /\ last.ret = "True"
  /\ _stop_on_fail /\ _failures # << >> /\ check_msg # None

\* C8: in non-strict mode a wrapped predicate call whose assertion fails does
\* not raise, returns False and appends exactly one record, whose message is
\* the caller's message argument (empty when none was given).
C8_PredicateFailure ==
  (last.op = "predicate" /\ last.inexc # NoExc /\ ~last.pre.stop) =>
    /\ last.outexc = NoExc /\ last.ret = "False"
    /\ OneAppended
    /\ NewestMsg = last.arg.s

C8_Witness ==
  /\ last.op = "predicate" /\ last.inexc # NoExc /\ ~last.pre.stop
  /\ last.arg = Str("custom") /\ last.ret = "False"
  /\ Len(_failures) = 2

\* C9: in non-strict mode a Soft-Check Scope left by an AssertionError, or by
\* an instance of a subclass, suppresses it and appends exactly one record.
C9_CheckExitRecords ==
  (last.op = "check_exit" /\ IsAssertion(last.inexc) /\ ~last.pre.stop) =>
    (last.outexc = NoExc /\ last.ret = "True" /\ OneAppended)

C9_Witness ==
  /\ last.op = "check_exit" /\ ~last.pre.stop
  /\ last.inexc = ExcVal("SubAssertionError", "")
  /\ last.outexc = NoExc
  /\ Len(_failures) = Len(last.pre.failures) + 1

\* C10 as stated: in non-strict mode an assertion failure leaving an
\* activation of the shared Soft-Check Scope that was entered as check(msg=m)
\* is recorded with message m, also when its block held another completed
\* activation of the shared scope.
C10_ConfiguredMessageLogged ==
  (last.op = "check_exit" /\ last.cfgd /\ IsAssertion(last.inexc) /\ ~last.pre.stop) =>
    (OneAppended /\ NewestMsg = last.arg.s)

\* C11 as stated: after every exit of the shared Soft-Check Scope (clean, by
\* an assertion failure in either mode, by another exception) the configured
\* message is unset, and a failure of a usage that was entered without a
\* message is never recorded under a message configured for another usage:
\* its record carries the text of its own exception.
C11_MessageNeverLeaks ==
  /\ last.op = "check_exit" => check_msg = None
  /\ (last.op = "check_exit" /\ ~last.cfgd /\ IsAssertion(last.inexc) /\ ~last.pre.stop)
       => (OneAppended /\ NewestMsg = last.inexc.s)

\* C12: an exception that is not an assertion failure, raised in the block
\* of a Soft-Check Scope or in a wrapped function, reaches the caller in both
\* modes and leaves the log as it was; a Soft-Check Scope whose block ends
\* without an exception leaves the log as it was and raises nothing.
C12_OtherExceptionsPropagate ==
  /\ ((WrapperCall \/ last.op = "check_exit") /\ last.inexc # NoExc /\ ~IsAssertion(last.inexc))
       => (last.outexc = last.inexc /\ LogUnchanged)
  /\ (last.op = "check_exit" /\ last.inexc = NoExc) => (last.outexc = NoExc /\ LogUnchanged)

C12_Witness ==
  /\ last.op = "check_exit" /\ ~last.pre.stop
  /\ last.inexc = ExcVal("ValueError", "")
  /\ last.outexc = last.inexc
  /\ last.pre.failures # << >> /\ _failures = last.pre.failures

\* An exception left the block of an Exception-Expectation Scope that is
\* neither an assertion failure nor of an expected type.
UnexpectedInRaises ==
  /\ last.op = "raises_exit" /\ last.inexc # NoExc
  /\ ~IsAssertion(last.inexc) /\ ~Caught(last.inexc, last.expected)

\* C13 as stated: such an exception reaches the caller in both modes and is
\* never recorded in the log.
C13_AsStated ==
  UnexpectedInRaises => (last.outexc = last.inexc /\ LogUnchanged)

\* C13 amended: such an exception reaches the caller, with the log as it
\* was, in strict mode only; in non-strict mode the scope suppresses it and
\* appends one record, whose message is the scope's configured message, or
\* the text of the exception when none was configured.
C13_UnexpectedRecorded ==
  UnexpectedInRaises =>
    IF last.pre.stop THEN last.outexc = last.inexc /\ LogUnchanged
    ELSE /\ last.outexc = NoExc
         /\ OneAppended
         /\ NewestMsg = (IF last.arg # None THEN last.arg.s ELSE last.inexc.s)

C13_Witness ==
  /\ UnexpectedInRaises /\ ~last.pre.stop
  /\ last.inexc = ExcVal("ValueError", "") /\ last.expected = {"AssertionError", "UnicodeError"}
  /\ last.arg = Str("custom")
  /\ last.outexc = NoExc
  /\ Len(_failures) = Len(last.pre.failures) + 1 /\ NewestMsg = "custom"

\* C14 as stated, under SpecWalk: whatever the call stack, a failure detected
\* in non-strict mode by a wrapped call or by the exit of a Soft-Check Scope
\* is logged without log_failure raising: nothing propagates and exactly one
\* record is appended.
C14_LogFailureNeverFails ==
  ((WrapperCall \/ last.op = "check_exit") /\ IsAssertion(last.inexc) /\ ~last.pre.stop)
    => (last.outexc = NoExc /\ OneAppended)

\* C15: every operation other than clear_failures leaves the entries the log
\* had in place, unmodified and in the same order, as a prefix of the new
\* log; the length of the log never decreases.
C15_AppendOnly ==
  last.op \notin {"init", "clear_failures"} =>
    /\ Len(_failures) >= Len(last.pre.failures)
    /\ SubSeq(_failures, 1, Len(last.pre.failures)) = last.pre.failures

C15_Witness ==
  /\ last.op = "raises_exit"
  /\ Len(last.pre.failures) = 2 /\ Len(_failures) = 3
  /\ _failures[3] # _failures[2]

\* C16 as stated, under SpecHeld: the value a call of get_failures returned
\* keeps the contents it had when the call returned, whatever is logged
\* afterwards.
C16_ReturnedIsSnapshot ==
  held.got => held.val = held.at

\* The last call appended a record; its pseudo-trace.
Recorded == (WrapperCall \/ last.op = "check_exit") /\ Len(_failures) = Len(last.pre.failures) + 1
NewestTrace == _failures[Len(_failures)].trace

\* The line log_failure formats for frame f.
LineOf(f) == TraceLine(relpath(f.file), f.line, f.func, f.context)

\* The first frame of stack c, from the detection site outward, whose
\* function name contains the test marker; 0 when there is none.
FirstMarked(c) ==
  IF \E i \in 1..Len(c) : HasTestMarker(c[i].func)
  THEN CHOOSE i \in 1..Len(c) : /\ HasTestMarker(c[i].func)
                                 /\ \A j \in 1..(i - 1) : ~HasTestMarker(c[j].func)
  ELSE 0

\* The part of C17 about order and about where the walk stops: the trace
\* holds the lines of the first n frames of the caller's stack, outermost
\* first and detection site last; none of them but the outermost has the
\* test marker; and when the first marked frame is reached before any frame
\* of an installed library, it is included and is the first line.
TraceOrdered ==
  Recorded =>
    LET c == callstack
        n == Len(NewestTrace)
        k == FirstMarked(c)
    IN /\ n <= Len(c)
       /\ \A i \in 1..n : NewestTrace[i] = LineOf(c[n + 1 - i])
       /\ \A i \in 1..(n - 1) : ~HasTestMarker(c[i].func)
       /\ (k > 0 /\ \A i \in 1..k : ~InSitePackages(c[i].file)) => n = k

\* C17 as stated, under SpecWalk: the pseudo-trace of a recorded failure
\* lists the visited frames outermost first and detection site last, the
\* walk stops at the first frame whose function name contains the test
\* marker, that frame being included as the first line, and no frame whose
\* file is in installed library code (site-packages) is in the trace.
C17_PseudoTrace ==
  /\ TraceOrdered
  /\ Recorded => \A i \in 1..Len(NewestTrace) : ~InSitePackages(callstack[i].file)

\* C18: set_stop_on_fail leaves the log (and the shared scope's message) as
\* it was; every other operation (clear_failures, get_failures, wrapped
\* calls, scope enters and exits) leaves the strict-mode flag as it was.
C18_FlagFrame ==
  /\ last.op = "set_stop_on_fail" => (LogUnchanged /\ check_msg = last.pre.msg)
  /\ last.op # "set_stop_on_fail" => _stop_on_fail = last.pre.stop

C18_Witness ==
  /\ last.op = "clear_failures"
  /\ _stop_on_fail /\ last.pre.stop
  /\ last.pre.failures # << >> /\ _failures = << >>

\* The last call was the exit of a scope with an exception the scope has to
\* decide on: an assertion failure leaving a Soft-Check Scope, an exception
\* that was not expected leaving an Exception-Expectation Scope.
ExitDecides ==
  \/ last.op = "check_exit" /\ IsAssertion(last.inexc)
  \/ last.op = "raises_exit" /\ last.inexc # NoExc /\ ~Caught(last.inexc, last.expected)

\* What the exit does when the flag it goes by is `flag`: let the exception
\* propagate with the log as it was, or suppress it and append one record.
FollowsFlag(flag) ==
  IF flag THEN last.outexc = last.inexc /\ LogUnchanged
  ELSE last.outexc = NoExc /\ OneAppended

\* C19, under SpecThreads (two threads, no locking).  Where the interference
\* comes from: the exit of a thread's use of the shared scope records a
\* failure under a message that is not this use's own only if a use by the
\* other thread was open during it.  That the interleavings of the claim
\* exist is C19_Witness: a failure of one thread recorded under the message
\* the other configured, a configured message cleared by the other thread's
\* exit before its use, a clear_failures by one thread discarding a record of
\* the other, and a get_failures by one thread returning a record of the
\* other.
C19_RaceNeedsOverlap ==
  \A t \in Threads :
    (pc[t].at = "logged" /\ pc[t].hit /\ pc[t].got # pc[t].want) => pc[t].ov

C19_Witness ==
  /\ race.under /\ race.cleared
  /\ race.discarded /\ race.observed

\* C20, under SpecExit: such an exit goes by the value the strict-mode flag
\* has when the scope exits (last.pre.stop); when set_stop_on_fail changed the
\* flag inside the block, the exit does not do what the value at the enter
\* (entered.at) asked for.
C20_FlagAtExitDecides ==
  ExitDecides =>
    /\ FollowsFlag(last.pre.stop)
    /\ entered.at # last.pre.stop => ~FollowsFlag(entered.at)

C20_Witness ==
  /\ last.op = "check_exit" /\ IsAssertion(last.inexc)
  /\ ~entered.at /\ last.pre.stop
  /\ last.outexc = last.inexc
  /\ _failures # << >> /\ _failures = last.pre.failures

====
